---- MODULE Spec2Model ----
(***************************************************************************)
(* Model of storage_data/connect.py: the Storage wrapper around a          *)
(* google-cloud-storage bucket.  One call on a Storage object is observed  *)
(* at a time: upload_files (a batch driven by a ThreadPoolExecutor),       *)
(* upload_file (one object, recursive retry), upload_large_file (chunked   *)
(* upload through transfer_manager) and download_file.                     *)
(*                                                                         *)
(* Python values: an optional argument (None or a value) and a local       *)
(* variable (unbound or bound) are sequences of length 0 or 1; a raised    *)
(* exception is the name of its class, "" when there is none.              *)
(***************************************************************************)
EXTENDS Integers, Sequences, FiniteSets, TLC

\* ---- bounds of the model ------------------------------------------------
MaxFiles == 3        \* files matched by path.glob(pattern) in one batch
MaxWorkers == 2      \* largest max_workers given to upload_files
RecursionLimit == 3  \* nested upload_file frames the interpreter allows
MaxChunks == 3       \* largest number of chunks of a large upload

\* ---- program constants --------------------------------------------------
MEGA_BYTES == 1048576
DEFAULT_TIMEOUT == 180
DEFAULT_INDEX_SUB == 4

None == <<>>
Some(v) == <<v>>
Unbound == <<>>

\* Python truthiness of an optional string / optional int argument.
TruthyStr(o) == o # None /\ o[1] # ""
TruthyInt(o) == o # None /\ o[1] # 0

\* ---- paths ---------------------------------------------------------------
RECURSIVE JoinSlash(_)
\* '/'.join(parts)
JoinSlash(parts) ==
    IF parts = <<>> THEN ""
    ELSE IF Len(parts) = 1 THEN parts[1]
    ELSE parts[1] \o "/" \o JoinSlash(Tail(parts))

\* A slice that starts one component too early.
LastPartsOffByOne(parts, k) ==
    IF k >= Len(parts) THEN parts
    ELSE SubSeq(parts, Len(parts) - k, Len(parts))

\* file_path.parts[-k:] for k > 0
LastParts(parts, k) ==
    IF k >= Len(parts) THEN parts
    ELSE SubSeq(parts, Len(parts) - k + 1, Len(parts))

\* The roots of a POSIX path: "/" and, kept as it is, exactly two slashes.
Roots == {"/", "//"}

\* str(file_path): "." for a path of no parts; the root of an absolute path
\* is its first part and is not followed by a separator.
PathStr(parts) ==
    IF parts = <<>> THEN "."
    ELSE IF parts[1] \in Roots THEN parts[1] \o JoinSlash(Tail(parts))
    ELSE JoinSlash(parts)

\* file_path.name: the last part, and "" for a path that is only a root or
\* has no parts.
PathName(parts) ==
    IF parts = <<>> THEN ""
    ELSE IF Len(parts) = 1 /\ parts[1] \in Roots THEN ""
    ELSE parts[Len(parts)]

\* A resolver that looks at sub_path before prefix_blob.
blob_source_destSubFirst(file_path, prefix_blob, sub_path, index_sub) ==
    IF TruthyStr(sub_path) /\ index_sub > 0
    THEN [source |-> PathStr(file_path),
          dest |-> sub_path[1] \o "/" \o JoinSlash(LastParts(file_path, index_sub))]
    ELSE IF TruthyStr(prefix_blob)
    THEN [source |-> PathStr(file_path), dest |-> prefix_blob[1]]
    ELSE [source |-> PathStr(file_path), dest |-> PathName(file_path)]

\* A resolver that keeps only the base name under sub_path.
blob_source_destNameOnly(file_path, prefix_blob, sub_path, index_sub) ==
    IF TruthyStr(prefix_blob)
    THEN [source |-> PathStr(file_path), dest |-> prefix_blob[1]]
    ELSE IF TruthyStr(sub_path) /\ index_sub > 0
    THEN [source |-> PathStr(file_path),
          dest |-> sub_path[1] \o "/" \o PathName(file_path)]
    ELSE [source |-> PathStr(file_path), dest |-> PathName(file_path)]

\* The key resolver nested in upload_files: (source, destination key).
blob_source_dest(file_path, prefix_blob, sub_path, index_sub) ==
    IF TruthyStr(prefix_blob)
    THEN [source |-> PathStr(file_path), dest |-> prefix_blob[1]]
    ELSE IF TruthyStr(sub_path) /\ index_sub > 0
    THEN [source |-> PathStr(file_path),
          dest |-> sub_path[1] \o "/" \o JoinSlash(LastParts(file_path, index_sub))]
    ELSE [source |-> PathStr(file_path), dest |-> PathName(file_path)]

\* ---- upload_file: one activation record per nested call -------------------
\* bucket.blob(name, chunk_size=...): a local handle, nothing uploaded yet.
Blob(name, chunk_size) ==
    [name |-> name, chunk_size |-> chunk_size, uploaded |-> FALSE]

\* Entry of upload_file: the MiB argument is scaled when it is truthy.
ScaleChunk(chunk_size) ==
    IF TruthyInt(chunk_size) THEN Some(MEGA_BYTES * chunk_size[1]) ELSE chunk_size

\* The locals of one activation of upload_file.
Frame(source, dest, timeout, chunk_size) ==
    [source |-> source, dest |-> dest, timeout |-> timeout,
     chunk_size |-> ScaleChunk(chunk_size), blob |-> Unbound, put |-> FALSE]

\* The recursive call in the except branch: self.upload_file(bucket, source, dest).
RetryFrame(f) == Frame(f.source, f.dest, DEFAULT_TIMEOUT, None)

\* The call of upload_file as a whole: a stack of frames, outermost first.
\* `given` keeps the timeout and chunk_size arguments as the caller wrote them.
NewCall(source, dest, timeout, chunk_size) ==
    [given |-> [timeout |-> timeout, chunk_size |-> chunk_size],
     frames |-> <<Frame(source, dest, timeout, chunk_size)>>,
     status |-> "running", result |-> Unbound, exc |-> ""]

NoCall ==
    [given |-> [timeout |-> DEFAULT_TIMEOUT, chunk_size |-> None],
     frames |-> <<>>, status |-> "none", result |-> Unbound, exc |-> ""]

Outcomes == {"ok", "blob_fails", "put_fails"}

\* The try block of the innermost frame under one behaviour of the collaborator.
TryBlock(f, outcome) ==
    IF outcome = "blob_fails" THEN f
    ELSE [f EXCEPT !.blob = Some([Blob(f.dest, f.chunk_size)
                                     EXCEPT !.uploaded = (outcome = "ok")]),
                   !.put = TRUE]

\* `return blob` in every frame, innermost first: a frame whose bucket.blob
\* raised has no local named blob, and the return raises UnboundLocalError.
AllBound(frames) == \A i \in 1..Len(frames) : frames[i].blob # Unbound

\* Whether the except branch may call upload_file once more.
CanRecurse(frames) == Len(frames) < RecursionLimit

\* One attempt of the innermost frame, and what follows from it.
Attempt(c, outcome) ==
    LET n == Len(c.frames)
        fs == [c.frames EXCEPT ![n] = TryBlock(c.frames[n], outcome)]
    IN  IF outcome = "ok"
        THEN IF AllBound(fs)
             THEN [c EXCEPT !.frames = fs, !.status = "returned",
                            !.result = fs[1].blob]
             ELSE [c EXCEPT !.frames = fs, !.status = "raised",
                            !.exc = "UnboundLocalError"]
        ELSE IF CanRecurse(fs)
             THEN [c EXCEPT !.frames = Append(fs, RetryFrame(fs[n]))]
             ELSE [c EXCEPT !.frames = fs, !.status = "raised",
                            !.exc = "RecursionError"]

\* Calls of the collaborator's put (blob.upload_from_filename) made so far.
PutAttempts(c) == Cardinality({i \in 1..Len(c.frames) : c.frames[i].put})
\* Activations of upload_file started so far.
Attempts(c) == Len(c.frames)

\* ---- inputs ---------------------------------------------------------------
\* The i-th file matched by path.glob(pattern): two directories, so that two
\* matched files can share a base name.
MatchedFile(i) ==
    <<"data", IF i % 2 = 1 THEN "a" ELSE "b", "f" \o ToString((i + 1) \div 2) \o ".csv">>

\* upload_files called with its keyword defaults.
DefaultKeyConfig ==
    [prefix_blob |-> None, sub_path |-> None, index_sub |-> DEFAULT_INDEX_SUB]

\* upload_files called with a sub path and the last two path components:
\* the keys of the matched files are pairwise distinct.
SubPathKeyConfig ==
    [prefix_blob |-> None, sub_path |-> Some("archive"), index_sub |-> 2]

\* Keyword arguments of upload_files tried by the model.
KeyConfigs ==
    { DefaultKeyConfig,
      SubPathKeyConfig,
      [prefix_blob |-> Some("latest.csv"), sub_path |-> Some("archive"), index_sub |-> 2] }

\* The calls of upload_files tried by the model, as <<keywords, max_workers>>:
\* every keyword set with a pool of one worker, and the sub-path keywords
\* with every pool size.
BatchInputs ==
    {<<kc, 1>> : kc \in KeyConfigs}
        \cup {<<SubPathKeyConfig, mw>> : mw \in 1..MaxWorkers}

VARIABLES
    op,       \* the method of Storage being called, "none" before the call
    main,     \* position of the calling thread
    cfg,      \* keyword arguments of upload_files
    tasks,    \* list_map_bob_destino: (source, dest) per matched file
    queue,    \* the executor's work queue: indexes of tasks not yet started
    running,  \* the tasks that worker threads of the pool are running
    future,   \* per task: the Future that executor.map created for it
    call,     \* per task (or the direct call): the activation of upload_file
    finished, \* the tasks in the order in which their futures were completed
    gen,      \* state of the generator returned by executor.map
    yielded,  \* what the caller has taken out of the generator so far
    dl,       \* the activation of download_file
    lg,       \* the activation of upload_large_file
    kr        \* the key resolver at work: its arguments, the files, the keys

batchVars == <<cfg, tasks, queue, running, future, finished, gen, yielded>>
otherVars == <<dl, lg, kr>>

\* ---- upload_files ----------------------------------------------------------
\* A pool that is one thread larger than asked for.
PoolSizeOffByOne(max_workers) == max_workers + 1

\* ThreadPoolExecutor(max_workers=max_workers): the number of worker threads.
PoolSize(max_workers) == max_workers

\* A generator that hands the results out last task first.
ResultIndexReversed(k, n) == n + 1 - k

\* The future whose result the generator hands out at its k-th step:
\* executor.map yields in the order of its input.
ResultIndex(k, n) == k

PendingFuture == [state |-> "PENDING", result |-> Unbound, exc |-> ""]

\* up_filename_name: upload_file(bucket, source, destinetion), defaults elsewhere.
up_filename_name(task) == NewCall(task.source, task.dest, DEFAULT_TIMEOUT, None)

\* upload_files up to the call of executor.map: the pool is created and no
\* file has been asked of the glob yet.  list_map_bob_destino is a lazy map
\* over path.glob(pattern); executor.map consumes it one file at a time.
CallUploadFiles(kc, max_workers) ==
    /\ op = "none"
    /\ op' = "upload_files"
    /\ cfg' = [prefix_blob |-> kc.prefix_blob, sub_path |-> kc.sub_path,
               index_sub |-> kc.index_sub, max_workers |-> max_workers]
    /\ tasks' = <<>>
    /\ queue' = <<>>
    /\ running' = {}
    /\ finished' = <<>>
    /\ future' = <<>>
    /\ call' = <<>>
    /\ main' = "map"
    /\ UNCHANGED <<gen, yielded>>
    /\ UNCHANGED otherVars

\* One turn of the list comprehension of executor.map: the glob yields its
\* next file, blob_source_dest makes the task and submit queues the work item
\* with a new future.  The worker threads run while the caller iterates.
SubmitFile ==
    /\ op = "upload_files"
    /\ main = "map"
    /\ Len(tasks) < MaxFiles
    /\ LET i == Len(tasks) + 1
       IN  /\ tasks' = Append(tasks, blob_source_dest(MatchedFile(i), cfg.prefix_blob,
                                                      cfg.sub_path, cfg.index_sub))
           /\ queue' = Append(queue, i)
           /\ future' = Append(future, PendingFuture)
           /\ call' = Append(call, NoCall)
    /\ UNCHANGED <<op, main, cfg, running, finished, gen, yielded>>
    /\ UNCHANGED otherVars

\* The glob has no more files, or raises where it would have ended: the
\* caller reaches the end of the with block, by the end of its body or by the
\* error, and waits in the executor's shutdown.
GlobEnds(glob_error) ==
    /\ op = "upload_files"
    /\ main = "map"
    /\ main' = IF glob_error THEN "with_exit_error" ELSE "with_exit"
    /\ UNCHANGED <<op, cfg, tasks, queue, running, future, finished, call, gen, yielded>>
    /\ UNCHANGED otherVars

\* A worker thread of the pool is free: the executor starts at most
\* max_workers threads, and each runs one work item at a time.
IdleWorker == Cardinality(running) < PoolSize(cfg.max_workers)

\* An idle worker thread takes the oldest work item and enters upload_file.
WorkerTake ==
    /\ op = "upload_files"
    /\ IdleWorker
    /\ queue # <<>>
    /\ LET i == Head(queue)
       IN  /\ running' = running \cup {i}
           /\ queue' = Tail(queue)
           /\ future' = [future EXCEPT ![i].state = "RUNNING"]
           /\ call' = [call EXCEPT ![i] = up_filename_name(tasks[i])]
    /\ UNCHANGED <<op, main, cfg, tasks, finished, gen, yielded>>
    /\ UNCHANGED otherVars

\* What the worker stores in the future when the work item ends.
SetFuture(f, c) ==
    IF c.status = "returned"
    THEN [f EXCEPT !.state = "FINISHED", !.result = c.result]
    ELSE IF c.status = "raised"
    THEN [f EXCEPT !.state = "FINISHED", !.exc = c.exc]
    ELSE f

\* When the work item ends its frames are popped: the worker keeps the
\* outcome of the call and nothing else of it.
Popped(c) == IF c.status = "running" THEN c ELSE [c EXCEPT !.frames = <<>>]

\* A worker thread runs one attempt of the upload it is in.
WorkerAttempt(i, outcome) ==
    /\ op = "upload_files"
    /\ i \in running
    /\ LET c == Attempt(call[i], outcome)
       IN  /\ call' = [call EXCEPT ![i] = Popped(c)]
           /\ future' = [future EXCEPT ![i] = SetFuture(future[i], c)]
           /\ running' = IF c.status = "running" THEN running ELSE running \ {i}
           /\ finished' = IF c.status = "running" THEN finished ELSE Append(finished, i)
    /\ UNCHANGED <<op, main, cfg, tasks, queue, gen, yielded>>
    /\ UNCHANGED otherVars

\* A shutdown that does not wait for the work items: shutdown(wait=False).
DrainedNoWait == TRUE

\* A shutdown that waits for the queue to be taken, not for the work items
\* that are running.
DrainedQueueOnly == queue = <<>>

\* What the end of the with block waits for: executor.shutdown(wait=True).
Drained == /\ queue = <<>>
           /\ running = {}

\* The with block ends: upload_files returns the generator, or the error of
\* the iteration goes on to the caller.
WithExit ==
    /\ op = "upload_files"
    /\ main \in {"with_exit", "with_exit_error"}
    /\ Drained
    /\ main' = IF main = "with_exit_error" THEN "raised" ELSE "returned"
    /\ gen' = IF main = "with_exit_error" THEN gen ELSE "open"
    /\ UNCHANGED <<op, cfg, tasks, queue, running, future, finished, call, yielded>>
    /\ UNCHANGED otherVars

\* The caller takes the next element of the returned generator.
ConsumeNext ==
    /\ op = "upload_files"
    /\ main = "returned"
    /\ gen = "open"
    /\ LET k == Len(yielded) + 1
           n == Len(tasks)
       IN  IF k > n
           THEN /\ gen' = "exhausted"
                /\ UNCHANGED yielded
           ELSE LET f == future[ResultIndex(k, n)]
                IN  IF f.exc # ""
                    THEN /\ gen' = "raised"
                         /\ UNCHANGED yielded
                    ELSE /\ yielded' = Append(yielded, f.result[1])
                         /\ UNCHANGED gen
    /\ UNCHANGED <<op, main, cfg, tasks, queue, running, future, finished, call>>
    /\ UNCHANGED otherVars

\* ---- upload_file called directly ------------------------------------------
Sources == {"data/a/f1.csv"}
Dests == {"f1.csv"}
Timeouts == {DEFAULT_TIMEOUT, 30}
ChunkSizes == {None, Some(0), Some(1), Some(8)}

CallUploadFile(source, dest, timeout, chunk_size) ==
    /\ op = "none"
    /\ op' = "upload_file"
    /\ main' = "upload_file"
    /\ call' = <<NewCall(source, dest, timeout, chunk_size)>>
    /\ UNCHANGED batchVars
    /\ UNCHANGED otherVars

\* The calling thread runs one attempt of upload_file.
MainAttempt(outcome) ==
    /\ op = "upload_file"
    /\ main = "upload_file"
    /\ LET c == Attempt(call[1], outcome)
       IN  /\ call' = <<c>>
           /\ main' = IF c.status = "running" THEN "upload_file" ELSE c.status
    /\ UNCHANGED <<op>>
    /\ UNCHANGED batchVars
    /\ UNCHANGED otherVars

\* ---- download_file ----------------------------------------------------------
\* What bucket.get_blob returns: None for a missing object, else its handle.
NoneValue == [kind |-> "None"]
RemoteBlob(name, size) == [kind |-> "Blob", name |-> name, size |-> size]

GetBlob(name, remote) ==
    IF remote = None THEN NoneValue ELSE RemoteBlob(name, remote[1])

NoDownload ==
    [name |-> "", dest |-> "", remote |-> None, pc |-> "none", blob |-> Unbound,
     gets |-> 0, streams |-> 0, written |-> FALSE,
     status |-> "none", result |-> Unbound, exc |-> ""]

\* `return blob` after the try statement of download_file.
ReturnBlob(d) ==
    IF d.blob = Unbound
    THEN [d EXCEPT !.pc = "done", !.status = "raised", !.exc = "UnboundLocalError"]
    ELSE [d EXCEPT !.pc = "done", !.status = "returned", !.result = d.blob]

\* A download that, like upload_file, tries again after a failed get.
GetStepRetry(d, outcome) ==
    LET d1 == [d EXCEPT !.gets = @ + 1]
    IN  IF outcome = "get_fails"
        THEN d1
        ELSE LET d2 == [d1 EXCEPT !.blob = Some(GetBlob(d.name, d.remote))]
             IN  IF d2.blob[1] = NoneValue
                 THEN ReturnBlob(d2)
                 ELSE [d2 EXCEPT !.pc = "stream"]

\* blob = bucket.get_blob(source_blob_name); size = blob.size
GetStep(d, outcome) ==
    LET d1 == [d EXCEPT !.gets = @ + 1]
    IN  IF outcome = "get_fails"
        THEN ReturnBlob(d1)
        ELSE LET d2 == [d1 EXCEPT !.blob = Some(GetBlob(d.name, d.remote))]
             IN  IF d2.blob[1] = NoneValue
                 THEN ReturnBlob(d2)
                 ELSE [d2 EXCEPT !.pc = "stream"]

\* blob.download_to_filename(destination_file_name), then `return blob`.
StreamStep(d, outcome) ==
    ReturnBlob([d EXCEPT !.streams = @ + 1, !.written = (outcome = "ok")])

BlobNames == {"f1.csv"}
LocalNames == {"out/f1.csv"}
RemoteSizes == {0, 5 * MEGA_BYTES}

CallDownloadFile(name, dest, remote) ==
    /\ op = "none"
    /\ op' = "download_file"
    /\ main' = "download_file"
    /\ dl' = [NoDownload EXCEPT !.name = name, !.dest = dest, !.remote = remote,
                                !.pc = "get", !.status = "running"]
    /\ UNCHANGED <<call, lg>>
    /\ UNCHANGED batchVars
    /\ UNCHANGED kr

DownloadGet(outcome) ==
    /\ op = "download_file"
    /\ dl.pc = "get"
    /\ dl' = GetStep(dl, outcome)
    /\ main' = IF dl'.status = "running" THEN main ELSE dl'.status
    /\ UNCHANGED <<op, call, lg>>
    /\ UNCHANGED batchVars
    /\ UNCHANGED kr

DownloadStream(outcome) ==
    /\ op = "download_file"
    /\ dl.pc = "stream"
    /\ dl' = StreamStep(dl, outcome)
    /\ main' = dl'.status
    /\ UNCHANGED <<op, call, lg>>
    /\ UNCHANGED batchVars
    /\ UNCHANGED kr

\* ---- upload_large_file -------------------------------------------------------
\* Number of chunks of a file of `total` bytes: ceil(total / chunk_size), at
\* least one.
ChunkCount(total, chunk_size) ==
    LET q == (total + chunk_size - 1) \div chunk_size
    IN  IF q < 1 THEN 1 ELSE q

\* The default of the chunk_size parameter of upload_large_file.
DEFAULT_LARGE_CHUNK == MEGA_BYTES * 32

\* The parameter chunk_size of upload_large_file for an argument that is
\* given or left out.
LargeChunkParam(given) == IF given = None THEN DEFAULT_LARGE_CHUNK ELSE given[1]

\* The chunk_size handed to transfer_manager.upload_chunks_concurrently.
LargeForwarded(chunk_size) == chunk_size

NoLarge ==
    [source |-> "", dest |-> "", given |-> None, chunk_size |-> 0, sent |-> None,
     workers |-> 0, total |-> 0,
     pc |-> "none", blob |-> Unbound, parts |-> <<>>, composes |-> 0,
     composed |-> FALSE, status |-> "none", result |-> Unbound, exc |-> ""]

\* blob = bucket.blob(destination_blob_name); an error is not caught.
LargeBlobStep(g, outcome) ==
    IF outcome = "blob_fails"
    THEN [g EXCEPT !.pc = "done", !.status = "raised", !.exc = "StorageError"]
    ELSE [g EXCEPT !.pc = "chunks", !.blob = Some(Blob(g.dest, None)),
                   !.sent = Some(LargeForwarded(g.chunk_size)),
                   !.parts = [i \in 1..ChunkCount(g.total, LargeForwarded(g.chunk_size))
                                |-> "pending"]]

\* One chunk is uploaded as a part of the destination object.
PartStep(g, i, outcome) ==
    LET ps == [g.parts EXCEPT ![i] = IF outcome = "ok" THEN "ok" ELSE "failed"]
    IN  [g EXCEPT !.parts = ps,
                  !.pc = IF \A j \in DOMAIN ps : ps[j] # "pending"
                         THEN "finalize" ELSE "chunks"]

AllPartsOk(g) == \A j \in DOMAIN g.parts : g.parts[j] = "ok"

\* The end of the chunked transfer: the parts are composed only when every
\* one of them was uploaded; any failure is raised to the caller.
FinalizeStep(g, outcome) ==
    IF ~AllPartsOk(g)
    THEN [g EXCEPT !.pc = "raise", !.exc = "PartialChunkFailure"]
    ELSE IF outcome = "ok"
    THEN [g EXCEPT !.pc = "return", !.composes = @ + 1, !.composed = TRUE]
    ELSE [g EXCEPT !.pc = "raise", !.composes = @ + 1, !.exc = "StorageError"]

\* upload_large_file after transfer_manager.upload_chunks_concurrently: it
\* has no try statement, so an error of the transfer leaves it as it came;
\* otherwise it prints and returns the blob.
LargeEnd(g) ==
    IF g.pc = "raise"
    THEN [g EXCEPT !.pc = "done", !.status = "raised"]
    ELSE [g EXCEPT !.pc = "done", !.status = "returned", !.result = g.blob]

LargeChunkSizes == {32 * MEGA_BYTES, MEGA_BYTES, 8}

\* File sizes that give 1..MaxChunks chunks, full and partial last chunk.
LargeTotals(chunk_size) ==
    {0} \cup {q * chunk_size + r : q \in 0..(MaxChunks - 1), r \in {1, chunk_size}}

CallUploadLargeFile(source, dest, given, workers, total) ==
    /\ op = "none"
    /\ op' = "upload_large_file"
    /\ main' = "upload_large_file"
    /\ lg' = [NoLarge EXCEPT !.source = source, !.dest = dest, !.given = given,
                             !.chunk_size = LargeChunkParam(given),
                             !.workers = workers,
                             !.total = total, !.pc = "blob", !.status = "running"]
    /\ UNCHANGED <<call, dl>>
    /\ UNCHANGED batchVars
    /\ UNCHANGED kr

LargeBlob(outcome) ==
    /\ op = "upload_large_file"
    /\ lg.pc = "blob"
    /\ lg' = LargeBlobStep(lg, outcome)
    /\ main' = IF lg'.status = "running" THEN main ELSE lg'.status
    /\ UNCHANGED <<op, call, dl>>
    /\ UNCHANGED batchVars
    /\ UNCHANGED kr

LargePart(i, outcome) ==
    /\ op = "upload_large_file"
    /\ lg.pc = "chunks"
    /\ i \in DOMAIN lg.parts
    /\ lg.parts[i] = "pending"
    /\ lg' = PartStep(lg, i, outcome)
    /\ UNCHANGED <<op, main, call, dl>>
    /\ UNCHANGED batchVars
    /\ UNCHANGED kr

LargeFinalize(outcome) ==
    /\ op = "upload_large_file"
    /\ lg.pc = "finalize"
    /\ lg' = FinalizeStep(lg, outcome)
    /\ UNCHANGED <<op, main, call, dl>>
    /\ UNCHANGED batchVars
    /\ UNCHANGED kr

LargeReturn ==
    /\ op = "upload_large_file"
    /\ lg.pc \in {"raise", "return"}
    /\ lg' = LargeEnd(lg)
    /\ main' = lg'.status
    /\ UNCHANGED <<op, call, dl>>
    /\ UNCHANGED batchVars
    /\ UNCHANGED kr

\* ---- the key resolver on its own ----------------------------------------------
\* upload_files up to the building of the tasks: path.glob(pattern) yields
\* the matched files one by one and map applies blob_source_dest to each,
\* with the keyword arguments of the call.
MaxParts == 3        \* components of a generated file path
MaxKeyFiles == 2     \* files resolved in one run of the resolver

RECURSIVE DirSeqs(_)
\* The directory parts of the generated paths, up to k of them.
DirSeqs(k) ==
    IF k = 0 THEN {<<>>}
    ELSE DirSeqs(k - 1) \cup {Append(d, x) : d \in DirSeqs(k - 1), x \in {"a", "b"}}

ExamplePath == <<"a", "b", "c", "d.txt">>

\* The parts of the absolute path /a/d.txt.
AbsolutePath == <<"/", "a", "d.txt">>

\* The parts of //a/d.txt, whose root is "//".
DoubleSlashPath == <<"//", "a", "d.txt">>

\* The parts of the path /, which the pattern ** matches on the path /.
RootPath == <<"/">>

\* file_path.parts of the files the glob may yield.
Paths ==
    {Append(d, "d.txt") : d \in DirSeqs(MaxParts - 1)}
        \cup {ExamplePath, AbsolutePath, DoubleSlashPath, RootPath}

PrefixBlobs == {None, Some(""), Some("latest.csv")}
SubPaths == {None, Some(""), Some("archive")}
IndexSubs == ((0 - 1)..(MaxParts + 1)) \cup {10}

NoResolver ==
    [prefix_blob |-> None, sub_path |-> None, index_sub |-> DEFAULT_INDEX_SUB,
     files |-> <<>>, keys |-> <<>>]

\* The glob yields the next matched file and the resolver maps it.
ResolveNext(p) ==
    /\ op = "resolve"
    /\ Len(kr.files) < MaxKeyFiles
    /\ \A i \in 1..Len(kr.files) : kr.files[i] # p
    /\ kr' = [kr EXCEPT
                !.files = Append(@, p),
                !.keys = Append(@, blob_source_dest(p, kr.prefix_blob,
                                                    kr.sub_path, kr.index_sub))]
    /\ UNCHANGED <<op, main, call, dl, lg>>
    /\ UNCHANGED batchVars

KeyInit ==
    /\ op = "resolve"
    /\ main = "upload_files"
    /\ cfg = [prefix_blob |-> None, sub_path |-> None,
              index_sub |-> DEFAULT_INDEX_SUB, max_workers |-> 1]
    /\ tasks = <<>>
    /\ queue = <<>>
    /\ running = {}
    /\ finished = <<>>
    /\ future = <<>>
    /\ call = <<>>
    /\ gen = "none"
    /\ yielded = <<>>
    /\ dl = NoDownload
    /\ lg = NoLarge
    /\ \E pb \in PrefixBlobs, sp \in SubPaths, ix \in IndexSubs :
          kr = [NoResolver EXCEPT !.prefix_blob = pb, !.sub_path = sp,
                                  !.index_sub = ix]

KeyNext == \E p \in Paths : ResolveNext(p)

vars == <<op, main, cfg, tasks, queue, running, future, finished, call, gen, yielded, dl, lg, kr>>

Init ==
    /\ op = "none"
    /\ main = "idle"
    /\ cfg = [prefix_blob |-> None, sub_path |-> None,
              index_sub |-> DEFAULT_INDEX_SUB, max_workers |-> 1]
    /\ tasks = <<>>
    /\ queue = <<>>
    /\ running = {}
    /\ finished = <<>>
    /\ future = <<>>
    /\ call = <<>>
    /\ gen = "none"
    /\ yielded = <<>>
    /\ dl = NoDownload
    /\ lg = NoLarge
    /\ kr = NoResolver

Next ==
    \/ \E b \in BatchInputs : CallUploadFiles(b[1], b[2])
    \/ SubmitFile
    \/ \E e \in BOOLEAN : GlobEnds(e)
    \/ WorkerTake
    \/ \E i \in 1..MaxFiles, o \in Outcomes : WorkerAttempt(i, o)
    \/ WithExit
    \/ ConsumeNext
    \/ \E s \in Sources, d \in Dests, t \in Timeouts, cs \in ChunkSizes :
          CallUploadFile(s, d, t, cs)
    \/ \E o \in Outcomes : MainAttempt(o)
    \/ \E nm \in BlobNames, d \in LocalNames, r \in {None} \cup {Some(z) : z \in RemoteSizes} :
          CallDownloadFile(nm, d, r)
    \/ \E o \in {"ok", "get_fails"} : DownloadGet(o)
    \/ \E o \in {"ok", "stream_fails"} : DownloadStream(o)
    \/ \E s \in Sources, d \in Dests, w \in 1..MaxWorkers,
            cs \in {None} \cup {Some(z) : z \in LargeChunkSizes} :
          \E t \in LargeTotals(LargeChunkParam(cs)) : CallUploadLargeFile(s, d, cs, w, t)
    \/ \E o \in {"ok", "blob_fails"} : LargeBlob(o)
    \/ \E i \in 1..MaxChunks, o \in {"ok", "part_fails"} : LargePart(i, o)
    \/ \E o \in {"ok", "compose_fails"} : LargeFinalize(o)
    \/ LargeReturn

Spec == Init /\ [][Next]_vars

KeySpec == KeyInit /\ [][KeyNext]_vars

\* Each step of the program is taken eventually: a worker thread that can
\* take a work item does, a blocking call of the collaborator ends (by an
\* answer, an error or its timeout), and the with block is left once the
\* pool is drained.  Nothing makes the caller consume the generator.
Fairness ==
    /\ WF_vars(SubmitFile \/ \E e \in BOOLEAN : GlobEnds(e))
    /\ WF_vars(WorkerTake)
    /\ \A i \in 1..MaxFiles : WF_vars(\E o \in Outcomes : WorkerAttempt(i, o))
    /\ WF_vars(WithExit)
    /\ WF_vars(\E o \in Outcomes : MainAttempt(o))

FairSpec == Spec /\ Fairness

\* ---- properties ---------------------------------------------------------------
\* The tasks whose upload is started and not finished, retries included.
InFlight == {i \in DOMAIN call : call[i].status = "running"}

Ended(c) == c.status \in {"returned", "raised"}

\* The frames of a call whose try block has run.
Tried(c) == {i \in 1..Len(c.frames) : i < Len(c.frames) \/ c.status # "running"}

\* The return type of upload_file and download_file is Blob | None: the
\* value that reports a failure to the caller is None.
IsFailure(status, result) == status = "returned" /\ result = Some(NoneValue)

\* C1: order preservation. The k-th element taken from the sequence that
\* upload_files returned is the value returned by the upload of the k-th
\* matched file, a handle of the key resolved for that file, whatever the
\* order in which the uploads finished.
C1_OrderPreservation ==
    op = "upload_files" =>
        \A k \in 1..Len(yielded) :
            /\ call[k].status = "returned"
            /\ yielded[k] = call[k].result[1]
            /\ yielded[k].name =
                  blob_source_dest(MatchedFile(k), cfg.prefix_blob,
                                   cfg.sub_path, cfg.index_sub).dest

\* C1 witness: the last submitted task finished first, and every result
\* was handed out.
C1_Witness ==
    /\ op = "upload_files"
    /\ Len(tasks) >= 2
    /\ finished # <<>>
    /\ finished[1] = Len(tasks)
    /\ Len(yielded) = Len(tasks)
    /\ yielded[1].name # yielded[2].name

\* C2: bounded concurrency. At most max_workers uploads of a batch are in
\* flight at any time.
C2_BoundedConcurrency ==
    op = "upload_files" => Cardinality(InFlight) <= cfg.max_workers

\* C2 witness: the pool is full, one of the uploads in flight is in a retry,
\* and a task is waiting in the queue.
C2_Witness ==
    /\ op = "upload_files"
    /\ cfg.max_workers = MaxWorkers
    /\ Cardinality(InFlight) = cfg.max_workers
    /\ queue # <<>>
    /\ \E i \in InFlight : Len(call[i].frames) >= 2

\* The put of the call failed on every attempt made so far (and the blob
\* handle was created on each).
PutAlwaysFailed(c) ==
    /\ Tried(c) # {}
    /\ \A i \in Tried(c) : c.frames[i].put /\ ~c.frames[i].blob[1].uploaded

\* C3: upload retry-then-fail. When put fails on every attempt, upload_file
\* makes exactly 2 put attempts, never more, and its outcome is a Failure.
C3_RetryThenFail ==
    (op = "upload_file" /\ PutAlwaysFailed(call[1])) =>
        /\ PutAttempts(call[1]) <= 2
        /\ Ended(call[1]) =>
              /\ PutAttempts(call[1]) = 2
              /\ IsFailure(call[1].status, call[1].result)

\* No attempt of the call succeeded.
NoAttemptSucceeded(c) ==
    \A i \in Tried(c) : c.frames[i].blob = Unbound \/ ~c.frames[i].blob[1].uploaded

\* C4: upload never raises. No exception escapes upload_file, and the value
\* it returns is a Failure whenever no attempt succeeded.
C4_UploadNeverRaises ==
    op = "upload_file" =>
        /\ call[1].status # "raised"
        /\ (Ended(call[1]) /\ NoAttemptSucceeded(call[1])) =>
              IsFailure(call[1].status, call[1].result)

\* C5: termination under persistent failure. Once the files of a batch are
\* submitted, the call of upload_files completes and every upload_file call
\* of the batch returns, whatever the collaborator does.
C5_Termination ==
    (op = "upload_files" /\ main = "with_exit") ~>
        (main = "returned" /\ \A i \in DOMAIN call : call[i].status = "returned")

\* C6: sibling independence. When upload_files returns, every task of the
\* batch has had its upload started and has run to its own end, whether or
\* not other tasks failed.
C6_SiblingIndependence ==
    (op = "upload_files" /\ main = "returned") =>
        \A i \in DOMAIN tasks :
            /\ future[i].state = "FINISHED"
            /\ Ended(call[i])

\* C6 witness: with one worker, the first task failed by an escaping error
\* and the upload of a later task was still run, and succeeded.
C6_Witness ==
    /\ op = "upload_files"
    /\ main = "returned"
    /\ cfg.max_workers = 1
    /\ Len(tasks) = MaxFiles
    /\ call[1].status = "raised"
    /\ \E i \in DOMAIN tasks : call[i].status = "returned"
    /\ \E i \in DOMAIN tasks : i > 1 /\ call[i].exc = "RecursionError"

\* C7: full-length batch result. Consuming the returned sequence never
\* raises, and it hands out exactly one result per matched file.
C7_FullLengthResult ==
    op = "upload_files" =>
        /\ gen # "raised"
        /\ gen = "exhausted" => Len(yielded) = Len(tasks)

\* C8: partial chunk failure aborts composition. The parts are composed
\* only when every chunk was uploaded; when a chunk failed, compose is never
\* invoked and upload_large_file returns a Failure value.
C8_PartialChunkFailure ==
    op = "upload_large_file" =>
        /\ lg.composes > 0 => AllPartsOk(lg)
        /\ (lg.status # "running" /\ lg.parts # <<>> /\ ~AllPartsOk(lg)) =>
              /\ lg.composes = 0
              /\ IsFailure(lg.status, lg.result)

\* C9: download has no retry. One call of download_file calls get at most
\* once and streams at most once; after a failed get nothing is streamed,
\* and after either failure the call has ended.
C9_DownloadNoRetry ==
    op = "download_file" =>
        /\ dl.gets <= 1
        /\ dl.streams <= 1
        /\ (dl.gets = 1 /\ dl.blob = Unbound) => (dl.streams = 0 /\ dl.pc = "done")
        /\ (dl.streams = 1 /\ ~dl.written) => dl.pc = "done"

\* C9 witness: the get answered, the streaming failed, and the call ended
\* after one call of each.
C9_Witness ==
    /\ op = "download_file"
    /\ dl.pc = "done"
    /\ dl.gets = 1
    /\ dl.streams = 1
    /\ ~dl.written

\* C10: download never raises and reports failure. download_file returns in
\* every failure case, and what it returns then is not a blob handle, which
\* is what a successful download returns.
C10_DownloadReportsFailure ==
    op = "download_file" =>
        /\ dl.status # "raised"
        /\ (dl.pc = "done" /\ ~dl.written) =>
              (dl.status = "returned" /\ dl.result[1].kind # "Blob")

\* An optional string argument counts as set when it is given and not
\* empty.
IsSet(o) == o # None /\ o[1] # ""

\* The last m components of a path, in order.
Suffix(parts, m) == [j \in 1..m |-> parts[Len(parts) - m + j]]

Min(a, b) == IF a <= b THEN a ELSE b

\* The base name of a path, its directory structure discarded: its last
\* component when that is a name, and nothing when the path ends in its root.
BaseName(p) == IF p = <<>> \/ p[Len(p)] \in Roots THEN "" ELSE p[Len(p)]

\* C11: key resolution priority. Every resolved file has one key: the
\* prefix when prefix_blob is set, the same for every file; otherwise, with
\* sub_path set and index_sub > 0, sub_path, "/" and the last index_sub
\* components joined by "/"; otherwise the base name of the file.
C11_KeyPriority ==
    op = "resolve" =>
        /\ Len(kr.keys) = Len(kr.files)
        /\ \A i \in 1..Len(kr.keys) :
              LET p == kr.files[i]
                  k == kr.keys[i].dest
              IN  /\ IsSet(kr.prefix_blob) => k = kr.prefix_blob[1]
                  /\ (~IsSet(kr.prefix_blob) /\ IsSet(kr.sub_path) /\ kr.index_sub > 0) =>
                        k = kr.sub_path[1] \o "/"
                              \o JoinSlash(Suffix(p, Min(kr.index_sub, Len(p))))
                  /\ (~IsSet(kr.prefix_blob) /\ ~(IsSet(kr.sub_path) /\ kr.index_sub > 0)) =>
                        k = BaseName(p)

\* C11 witness: prefix_blob and sub_path are both set, with a positive
\* depth, and two files were resolved to the prefix.
C11_Witness ==
    /\ op = "resolve"
    /\ IsSet(kr.prefix_blob)
    /\ IsSet(kr.sub_path)
    /\ kr.index_sub > 0
    /\ Len(kr.keys) = 2
    /\ kr.keys[1].dest = kr.keys[2].dest

\* C12: suffix-depth rule. With sub_path set, prefix_blob unset and a depth
\* d > 0, the key of a file of n components is sub_path, "/" and its last
\* min(d, n) components joined by "/": a/b/c/d.txt gives archive/c/d.txt at
\* depth 2 and archive/a/b/c/d.txt at depth 10.
C12_SuffixDepth ==
    (op = "resolve" /\ ~IsSet(kr.prefix_blob) /\ IsSet(kr.sub_path) /\ kr.index_sub > 0) =>
        \A i \in 1..Len(kr.keys) :
            LET p == kr.files[i]
                k == kr.keys[i].dest
                m == Min(kr.index_sub, Len(p))
            IN  /\ k = kr.sub_path[1] \o "/" \o JoinSlash(Suffix(p, m))
                /\ (p = ExamplePath /\ kr.sub_path[1] = "archive" /\ kr.index_sub = 2) =>
                      k = "archive/c/d.txt"
                /\ (p = ExamplePath /\ kr.sub_path[1] = "archive" /\ kr.index_sub = 10) =>
                      k = "archive/a/b/c/d.txt"

\* C12 witness: a/b/c/d.txt was resolved at depth 2 under archive, after a
\* file with fewer components than the depth.
C12_Witness ==
    /\ op = "resolve"
    /\ ~IsSet(kr.prefix_blob)
    /\ kr.sub_path = Some("archive")
    /\ kr.index_sub = 2
    /\ Len(kr.keys) = 2
    /\ Len(kr.files[1]) = 1
    /\ kr.files[2] = ExamplePath
    /\ kr.keys[2].dest = "archive/c/d.txt"

\* C19: no key collision. With prefix_blob unset, sub_path set and a depth
\* that is at least the number of components of every matched file, two
\* distinct matched files never get the same key.
C19_NoKeyCollision ==
    (/\ op = "resolve"
     /\ ~IsSet(kr.prefix_blob)
     /\ IsSet(kr.sub_path)
     /\ \A i \in 1..Len(kr.files) : kr.index_sub >= Len(kr.files[i])) =>
        \A i, j \in 1..Len(kr.keys) :
            i # j => kr.keys[i].dest # kr.keys[j].dest

\* C19 witness: two files of the same base name in different directories
\* were resolved at a depth that covers both, to different keys.
C19_Witness ==
    /\ op = "resolve"
    /\ ~IsSet(kr.prefix_blob)
    /\ IsSet(kr.sub_path)
    /\ Len(kr.keys) = 2
    /\ Len(kr.files[1]) >= 2
    /\ Len(kr.files[1]) = Len(kr.files[2])
    /\ kr.index_sub >= Len(kr.files[1])
    /\ kr.files[1][Len(kr.files[1])] = kr.files[2][Len(kr.files[2])]
    /\ kr.keys[1].dest # kr.keys[2].dest

\* C14: chunk-size units. The chunk size an upload operation takes is in
\* MiB and reaches the collaborator multiplied by 2^20: the blob handle of
\* upload_file, and the chunked transfer of upload_large_file, whose default
\* is 32 * 2^20 bytes.
C14_ChunkSizeUnits ==
    /\ (op = "upload_file" /\ call[1].frames[1].blob # Unbound) =>
          LET g == call[1].given.chunk_size
              b == call[1].frames[1].blob[1].chunk_size
          IN  IF g = None THEN b = None ELSE b = Some(g[1] * MEGA_BYTES)
    /\ (op = "upload_large_file" /\ lg.sent # None) =>
          IF lg.given = None
          THEN lg.sent = Some(32 * MEGA_BYTES)
          ELSE lg.sent = Some(lg.given[1] * MEGA_BYTES)

\* C16: the retry is the same operation. Every retry of upload_file is
\* issued with the source path, the destination key, the timeout and the
\* chunk size of the first attempt.
C16_RetrySameOperation ==
    op = "upload_file" =>
        \A i \in 2..Len(call[1].frames) :
            /\ call[1].frames[i].source = call[1].frames[1].source
            /\ call[1].frames[i].dest = call[1].frames[1].dest
            /\ call[1].frames[i].timeout = call[1].frames[1].timeout
            /\ call[1].frames[i].chunk_size = call[1].frames[1].chunk_size

Uploaded(f) == f.put /\ f.blob[1].uploaded

\* C18: attempt count follows the outcome. A call of upload_file whose
\* first attempt succeeds makes 1 put attempt; one whose first attempt fails,
\* at the creation of the blob handle or at the put, and whose retry succeeds
\* makes 2; both return a handle of the destination key, not a failure.
C18_AttemptCount ==
    (op = "upload_file" /\ Ended(call[1])) =>
        LET c == call[1]
            f == c.frames
        IN  /\ Uploaded(f[1]) =>
                  /\ PutAttempts(c) = 1
                  /\ Attempts(c) = 1
                  /\ c.status = "returned"
                  /\ c.result[1].name = f[1].dest
            /\ (~Uploaded(f[1]) /\ Len(f) >= 2 /\ Uploaded(f[2])) =>
                  /\ PutAttempts(c) = 2
                  /\ Attempts(c) = 2
                  /\ c.status = "returned"
                  /\ c.result[1].name = f[1].dest

\* C17: pool drained at return. Once upload_files has returned, or has
\* exited by an error, no work item waits in the pool, no worker runs one,
\* no upload of the batch is in flight and every submitted task is finished;
\* and no upload of the batch takes a step after that.
C17_PoolDrained ==
    /\ [](  (op = "upload_files" /\ main \in {"returned", "raised"}) =>
               /\ queue = <<>>
               /\ running = {}
               /\ InFlight = {}
               /\ Len(finished) = Len(tasks)
               /\ \A i \in DOMAIN tasks : future[i].state = "FINISHED"  )
    /\ [][  (op = "upload_files" /\ main \in {"returned", "raised"}) =>
               /\ call' = call
               /\ future' = future
               /\ running' = running  ]_vars

\* C17 witness: upload_files exited by the error of the iteration after all
\* the files were submitted to a pool of one worker, and every task is
\* finished.
C17_Witness ==
    /\ op = "upload_files"
    /\ main = "raised"
    /\ cfg.max_workers = 1
    /\ Len(tasks) = MaxFiles
    /\ Len(finished) = MaxFiles
    /\ \E i \in DOMAIN tasks : call[i].status = "raised"

====
